---- MODULE Spec2Model ----
(***************************************************************************)
(* Model of src/peachy2.py: the overload-pay pipeline process_data(df)     *)
(* and the script step that calls it (lines 172-178).                      *)
(*                                                                         *)
(* Representation.                                                         *)
(*   - A cell of a DataFrame is a record [k, v]: k = "num" (a number),     *)
(*     k = "str" (a Python str) or k = "nan" (missing / NaN).              *)
(*   - Strings are sequences of one-character strings so that upper(),     *)
(*     the `in` substring test and the str ordering are computed.          *)
(*   - Total Students / Max Students numbers are held in tenths (25.5 is   *)
(*     255); Base Students and Total Overload in whole students; pay_rate  *)
(*     in thousandths of a dollar and Overload Pay in cents.               *)
(*   - Every row carries its pandas index label (its position in the       *)
(*     uploaded table), which filtering and sorting preserve.              *)
(*   - The Year / Organization columns and the school-name hint of lines   *)
(*     153-158 only feed the display and are left out.                     *)
(***************************************************************************)
EXTENDS Integers, Sequences, FiniteSets, TLC

VARIABLES
    pc,                \* "uploaded" (before line 173) or "done" (after line 178)
    uploaded_file,     \* the uploaded table, as read_csv parses it (line 175)
    number_of_weeks,   \* sidebar input, line 17
    pay_rate,          \* sidebar input, line 19 (thousandths of a dollar)
    df,                \* the DataFrame object handed to process_data (mutated in place)
    relevant_courses,  \* local of process_data, lines 64-97
    staff_totals,      \* local of process_data, lines 100-102
    grand_total,       \* local of process_data, lines 105-108
    final_df,          \* local of process_data, line 139 (the full view)
    results,           \* module-level results, lines 172-176
    exit,              \* where process_data left: a return or the except handler
    message,           \* what st.error / st.warning showed
    title_arg,         \* argument of a direct get_base_students call
    base_out           \* its result

vars == <<pc, uploaded_file, number_of_weeks, pay_rate, df, relevant_courses,
          staff_totals, grand_total, final_df, results, exit, message,
          title_arg, base_out>>

(***************************************************************************)
(* Bounds                                                                  *)
(***************************************************************************)
MaxRows == 2
MaxTokens == 2

(***************************************************************************)
(* Cells and strings                                                       *)
(***************************************************************************)
Num(n) == [k |-> "num", v |-> n]
NaN == [k |-> "nan", v |-> 0]
Text == [k |-> "str", v |-> 0]            \* a non-numeric text in a numeric column
EmptyNum == [k |-> "str", v |-> 0]        \* the "" put in a numeric column
Str(s) == [k |-> "str", v |-> s]
NaNStr == [k |-> "nan", v |-> <<>>]
NonStr == [k |-> "num", v |-> <<>>]       \* a title that is not a str (a number)

LowerChars == <<"a","b","c","d","e","f","g","h","i","j","k","l","m",
                "n","o","p","q","r","s","t","u","v","w","x","y","z">>
UpperChars == <<"A","B","C","D","E","F","G","H","I","J","K","L","M",
                "N","O","P","Q","R","S","T","U","V","W","X","Y","Z">>
CodeOrder == <<" ","0","1","2","3","4","5","6","7","8","9">> \o UpperChars \o LowerChars

UpperChar(c) ==
    IF \E i \in 1..Len(LowerChars) : LowerChars[i] = c
    THEN UpperChars[CHOOSE i \in 1..Len(LowerChars) : LowerChars[i] = c]
    ELSE c

upper(s) == [i \in 1..Len(s) |-> UpperChar(s[i])]

Contains(s, sub) ==
    \E i \in 0..(Len(s) - Len(sub)) : SubSeq(s, i + 1, i + Len(sub)) = sub

Ord(c) == CHOOSE i \in 1..Len(CodeOrder) : CodeOrder[i] = c

RECURSIVE StrLess(_, _)
StrLess(a, b) ==
    IF Len(b) = 0 THEN FALSE
    ELSE IF Len(a) = 0 THEN TRUE
    ELSE IF Ord(Head(a)) # Ord(Head(b)) THEN Ord(Head(a)) < Ord(Head(b))
    ELSE StrLess(Tail(a), Tail(b))

MUSIC == <<"M","U","S","I","C">>
PHYS_ED == <<"P","H","Y","S"," ","E","D">>
ART == <<"A","R","T">>
CREATIVE == <<"C","R","E","A","T","I","V","E">>
MIXED == <<"M","I","X","E","D">>
KINDER == <<"K","I","N","D","E","R">>
TOTAL == <<"T","O","T","A","L">>

(***************************************************************************)
(* process_data, lines 28-47: validation and type conversion               *)
(***************************************************************************)
required_columns == <<"Course Title", "Staff Name", "Total Students">>

\* variant: the missing columns collected in reverse order
MissingColumns_LastFirst(t) ==
    LET n == Len(required_columns)
    IN SelectSeq([i \in 1..n |-> required_columns[n + 1 - i]], LAMBDA c : c \notin t.columns)

\* lines 32-35: the columns of required_columns that df lacks, in list order
MissingColumns(t) ==
    SelectSeq(required_columns, LAMBDA c : c \notin t.columns)

\* pd.to_numeric(errors='coerce') on one cell: a number stays, all else is NaN
to_numeric(c) == IF c.k = "num" THEN c ELSE NaN

\* fillna(0) on one cell
fillna0(c) == IF c.k = "nan" THEN Num(0) ELSE c

\* lines 38-44: the in-place column assignments on df
CoerceTypes(t) ==
    [t EXCEPT !.rows = [i \in 1..Len(t.rows) |->
        [t.rows[i] EXCEPT
            !.Total_Students = fillna0(to_numeric(@)),
            !.Max_Students = IF "Max Students" \in t.columns THEN to_numeric(@) ELSE @]]]

\* line 47: dropna(subset=["Course Title", "Total Students"])
DropNa(rows) ==
    SelectSeq(rows, LAMBDA r : r.Course_Title.k # "nan" /\ r.Total_Students.k # "nan")

(***************************************************************************)
(* lines 50-64: the eligibility filter                                     *)
(***************************************************************************)
HasKeyword(u) ==
    Contains(u, MUSIC) \/ Contains(u, PHYS_ED) \/ Contains(u, ART) \/ Contains(u, CREATIVE)

\* lines 50-62. `title` is rebound to its upper-case form on line 53, and it
\* is that upper-cased text which line 59 looks up in the Course Title column;
\* .iloc[0] on an empty selection raises IndexError, caught on line 61.
is_relevant_course(title, rows) ==
    IF title.k # "str" THEN FALSE
    ELSE LET u == upper(title.v)
             hits == SelectSeq(rows, LAMBDA r : r.Course_Title = Str(u))
         IN IF ~HasKeyword(u) THEN FALSE
            ELSE IF Len(hits) = 0 THEN FALSE
            ELSE LET students == to_numeric(hits[1].Total_Students)
                 IN students.k = "num" /\ students.v > 0

\* line 64
FilterRelevant(rows) ==
    SelectSeq(rows, LAMBDA r : is_relevant_course(r.Course_Title, rows))

(***************************************************************************)
(* lines 71-94: threshold, overload and pay                                *)
(***************************************************************************)
\* variant: the 4/5 rule tried before the MIXED/1/2/3 rule
get_base_students_GradeRuleFirst(title) ==
    IF title.k # "str" THEN 23
    ELSE LET u == upper(title.v)
         IN IF Contains(u, <<" ", "4">>) \/ Contains(u, <<" ", "5">>) THEN 26
            ELSE IF Contains(u, MIXED) \/ Contains(u, <<" ", "1">>)
               \/ Contains(u, <<" ", "2">>) \/ Contains(u, <<" ", "3">>) THEN 23
            ELSE IF Contains(u, KINDER) \/ Contains(u, <<" ", "K">>) THEN 22
            ELSE 23

\* lines 71-82
get_base_students(title) ==
    IF title.k # "str" THEN 23
    ELSE LET u == upper(title.v)
         IN IF Contains(u, MIXED) \/ Contains(u, <<" ", "1">>)
               \/ Contains(u, <<" ", "2">>) \/ Contains(u, <<" ", "3">>) THEN 23
            ELSE IF Contains(u, <<" ", "4">>) \/ Contains(u, <<" ", "5">>) THEN 26
            ELSE IF Contains(u, KINDER) \/ Contains(u, <<" ", "K">>) THEN 22
            ELSE 23

\* variant: the difference converted without clip(lower=0)
TotalOverload_NoClip(students, base) == (students - 10 * base) \div 10

\* lines 89-90: (Total Students - Base Students).clip(lower=0).astype(int);
\* students is in tenths, the result in whole students
TotalOverload(students, base) ==
    LET d == students - 10 * base
        clipped == IF d < 0 THEN 0 ELSE d
    IN clipped \div 10

\* .round(2) of a non-negative amount given in thousandths: cents, half to even
Round2(m) ==
    LET q == m \div 10
        r == m % 10
    IN IF r < 5 THEN q
       ELSE IF r > 5 THEN q + 1
       ELSE IF q % 2 = 0 THEN q ELSE q + 1

\* lines 93-94
OverloadPay(overload, rate, weeks) == Round2(overload * rate * weeks)

\* lines 84-94: the columns added to relevant_courses
Compute(rows, rate, weeks) ==
    [i \in 1..Len(rows) |->
        LET r == rows[i]
            students == fillna0(to_numeric(r.Total_Students)).v
            base == get_base_students(r.Course_Title)
            ov == TotalOverload(students, base)
        IN [Course_Title |-> r.Course_Title,
            Staff_Name |-> r.Staff_Name,
            Total_Students |-> Num(students),
            Base_Students |-> Num(base),
            Total_Overload |-> Num(ov),
            Overload_Pay |-> Num(OverloadPay(ov, rate, weeks)),
            isSummary |-> "NaN",
            isBlank |-> "NaN",
            index |-> r.index]]

(***************************************************************************)
(* lines 97-108: sorting and the per-staff totals                          *)
(***************************************************************************)
\* the order sort_values puts two Staff Name cells in: str order, NaN last
KeyLE(a, b) ==
    \/ b.k = "nan"
    \/ a.k = "str" /\ b.k = "str" /\ ~StrLess(b.v, a.v)

Perms(n) == {p \in [1..n -> 1..n] : \A i, j \in 1..n : p[i] = p[j] => i = j}

\* line 97: sort_values("Staff Name") with the default kind="quicksort",
\* which pandas and numpy document as not stable: the result is ordered by
\* the key and the order among rows with equal keys is not determined by the
\* call. Every ordering the contract allows is an outcome.
sort_values(rows) ==
    {s \in {[i \in 1..Len(rows) |-> rows[p[i]]] : p \in Perms(Len(rows))} :
        \A i, j \in 1..Len(s) : i < j => KeyLE(s[i].Staff_Name, s[j].Staff_Name)}

RECURSIVE SortKeys_Descending(_)
\* variant: the group keys in descending order
SortKeys_Descending(S) ==
    IF S = {} THEN <<>>
    ELSE LET m == CHOOSE x \in S : \A y \in S : ~StrLess(x, y)
         IN <<m>> \o SortKeys_Descending(S \ {m})

RECURSIVE SortKeys(_)
SortKeys(S) ==
    IF S = {} THEN <<>>
    ELSE LET m == CHOOSE x \in S : \A y \in S : ~StrLess(y, x)
         IN <<m>> \o SortKeys(S \ {m})

\* groupby("Staff Name"): the group keys in ascending order; rows whose key
\* is NaN belong to no group (groupby's default dropna=True)
GroupKeys(rows) ==
    SortKeys({rows[i].Staff_Name.v : i \in {j \in 1..Len(rows) : rows[j].Staff_Name.k = "str"}})

Group(rows, key) == SelectSeq(rows, LAMBDA r : r.Staff_Name = Str(key))

RECURSIVE SumOf(_, _)
SumOf(rows, col) ==
    IF Len(rows) = 0 THEN 0
    ELSE (IF col = "Total Overload" THEN Head(rows).Total_Overload.v
          ELSE Head(rows).Overload_Pay.v) + SumOf(Tail(rows), col)

\* lines 100-102
StaffTotals(rows) ==
    LET keys == GroupKeys(rows)
    IN [i \in 1..Len(keys) |->
          [Staff_Name |-> Str(keys[i]),
           Total_Overload |-> Num(SumOf(Group(rows, keys[i]), "Total Overload")),
           Overload_Pay |-> Num(SumOf(Group(rows, keys[i]), "Overload Pay"))]]

\* variant: the first staff member's totals taken for the grand total
GrandTotal_FirstRow(totals) ==
    [totalOverload |-> IF Len(totals) = 0 THEN 0 ELSE totals[1].Total_Overload.v,
     overloadPay |-> IF Len(totals) = 0 THEN 0 ELSE totals[1].Overload_Pay.v]

\* lines 105-108
GrandTotal(totals) ==
    [totalOverload |-> SumOf(totals, "Total Overload"),
     overloadPay |-> SumOf(totals, "Overload Pay")]

(***************************************************************************)
(* lines 111-151: the report rows and the two views                        *)
(***************************************************************************)
\* lines 120-130
summary_row(total) ==
    [Course_Title |-> Str(TOTAL),
     Staff_Name |-> total.Staff_Name,
     Total_Students |-> EmptyNum,
     Base_Students |-> EmptyNum,
     Total_Overload |-> total.Total_Overload,
     Overload_Pay |-> total.Overload_Pay,
     isSummary |-> "True",
     isBlank |-> "NaN",
     index |-> 0]

\* lines 134-135: "" in every column of the group, isBlank added
blank_row ==
    [Course_Title |-> Str(<<>>),
     Staff_Name |-> Str(<<>>),
     Total_Students |-> EmptyNum,
     Base_Students |-> EmptyNum,
     Total_Overload |-> EmptyNum,
     Overload_Pay |-> EmptyNum,
     isSummary |-> "NaN",
     isBlank |-> "True",
     index |-> 0]

RECURSIVE FinalData(_, _, _)
\* lines 111-139: for the groups from the k-th on
FinalData(rows, totals, k) ==
    IF k > Len(totals) THEN <<>>
    ELSE Group(rows, totals[k].Staff_Name.v)
         \o <<summary_row(totals[k]), blank_row>>
         \o FinalData(rows, totals, k + 1)

\* lines 147-151. final_df["Total Overload"] is an object column holding the
\* numbers of the detail and summary rows and the "" of the blank rows; the
\* comparison `> 0` on it evaluates "" > 0 for each blank row, which raises
\* TypeError (str against int). A frame built from no rows has no
\* "Total Overload" column at all, and the lookup raises KeyError.
NonZero(final) ==
    IF Len(final) = 0 THEN [raised |-> "KeyError", rows |-> <<>>]
    ELSE IF \E i \in 1..Len(final) : final[i].Total_Overload.k = "str"
         THEN [raised |-> "TypeError", rows |-> <<>>]
    ELSE [raised |-> "",
          rows |-> SelectSeq(final, LAMBDA r :
                      \/ r.isBlank = "True"
                      \/ r.isSummary = "True"
                      \/ r.Total_Overload.v > 0)]

(***************************************************************************)
(* The script step, lines 172-178, with the whole of process_data          *)
(***************************************************************************)
NoResults ==
    [ok |-> FALSE, data |-> <<>>, staff_totals |-> <<>>,
     grand_total |-> [totalOverload |-> 0, overloadPay |-> 0],
     non_zero_data |-> <<>>]

NoTable == [columns |-> {}, rows |-> <<>>]
NoTotal == [totalOverload |-> 0, overloadPay |-> 0]

\* lines 173-176: df = pd.read_csv(uploaded_file); results = process_data(df)
ProcessData ==
    /\ pc = "uploaded"
    /\ pc' = "done"
    /\ LET t == uploaded_file
           missing == MissingColumns(t)
       IN IF Len(missing) > 0
          THEN \* lines 32-35
               /\ df' = t
               /\ message' = <<"error", "missing required column", missing[1]>>
               /\ exit' = "return None (35)"
               /\ relevant_courses' = <<>> /\ staff_totals' = <<>>
               /\ grand_total' = NoTotal /\ final_df' = <<>>
               /\ results' = NoResults
          ELSE LET coerced == CoerceTypes(t)
                   relevant == FilterRelevant(DropNa(coerced.rows))
               IN /\ df' = coerced
                  /\ IF Len(relevant) = 0
                     THEN \* lines 66-68
                          /\ message' = <<"warning", "No relevant courses found", "">>
                          /\ exit' = "return None (68)"
                          /\ relevant_courses' = <<>> /\ staff_totals' = <<>>
                          /\ grand_total' = NoTotal /\ final_df' = <<>>
                          /\ results' = NoResults
                     ELSE \E sorted \in sort_values(Compute(relevant, pay_rate, number_of_weeks)) :
                          LET totals == StaffTotals(sorted)
                              grand == GrandTotal(totals)
                              final == FinalData(sorted, totals, 1)
                              nz == NonZero(final)
                          IN /\ relevant_courses' = sorted
                             /\ staff_totals' = totals
                             /\ grand_total' = grand
                             /\ final_df' = final
                             /\ IF nz.raised # ""
                                THEN \* lines 167-169
                                     /\ message' = <<"error", "An error occurred while processing the data", nz.raised>>
                                     /\ exit' = "return None (169)"
                                     /\ results' = NoResults
                                ELSE \* lines 160-165
                                     /\ message' = <<"", "", "">>
                                     /\ exit' = "return (160)"
                                     /\ results' = [ok |-> TRUE, data |-> final,
                                                    staff_totals |-> totals,
                                                    grand_total |-> grand,
                                                    non_zero_data |-> nz.rows]
    /\ UNCHANGED <<uploaded_file, number_of_weeks, pay_rate, title_arg, base_out>>

(***************************************************************************)
(* Inputs                                                                  *)
(***************************************************************************)
AllColumns == {"Course Title", "Staff Name", "Total Students", "Max Students"}
RequiredSet == {required_columns[i] : i \in 1..Len(required_columns)}

ART_1 == Str(<<"A","R","T"," ","1">>)
Art_1 == Str(<<"A","r","t"," ","1">>)
ART_5 == Str(<<"A","R","T"," ","5">>)
MATH_4 == Str(<<"M","A","T","H"," ","4">>)

TitleCells == {ART_1, Art_1, ART_5, MATH_4}
StaffCells == {Str(<<"B">>), Str(<<"a">>), NaNStr}
StudentCells == {Num(300), Num(255), Num(-50), Text}

\* the cell of column c: absent columns hold nothing
Cell(cols, c, value, none) == IF c \in cols THEN value ELSE none

TablesOver(cols, titles, staff, students, maxes) ==
    {[columns |-> cols,
      rows |-> [i \in DOMAIN f |->
                  [Course_Title |-> Cell(cols, "Course Title", f[i][1], NaNStr),
                   Staff_Name |-> Cell(cols, "Staff Name", f[i][2], NaNStr),
                   Total_Students |-> Cell(cols, "Total Students", f[i][3], NaN),
                   Max_Students |-> Cell(cols, "Max Students", f[i][4], NaN),
                   index |-> i]]] :
        f \in UNION {[1..n -> titles \X staff \X students \X maxes] : n \in 0..MaxRows}}

\* tables with exactly the required columns
FullTables == TablesOver(RequiredSet, TitleCells, StaffCells, StudentCells, {NaN})

\* tables with Max Students as well, some cells of it and of Course Title empty
WideTables ==
    TablesOver(AllColumns, {ART_1, NaNStr}, {Str(<<"B">>)}, {Num(300), NaN}, {Num(250), Text})

\* tables that lack at least one required column
LackingTables ==
    UNION {TablesOver(cols, {ART_1}, {Str(<<"B">>)}, {Num(300), Text}, {Num(250), Text}) :
             cols \in {c \in SUBSET AllColumns : ~(RequiredSet \subseteq c)}}

\* sidebar settings: weeks (1..5) and rate (thousandths of a dollar, > 0)
Settings == {<<4, 1250>>, <<1, 1256>>}

Init ==
    /\ pc = "uploaded"
    /\ uploaded_file \in FullTables \cup WideTables \cup LackingTables
    /\ \E c \in Settings : number_of_weeks = c[1] /\ pay_rate = c[2]
    /\ df = NoTable
    /\ relevant_courses = <<>>
    /\ staff_totals = <<>>
    /\ grand_total = NoTotal
    /\ final_df = <<>>
    /\ results = NoResults
    /\ exit = ""
    /\ message = <<"", "", "">>
    /\ title_arg = NonStr
    /\ base_out = 0

Next == ProcessData

Spec == Init /\ [][Next]_vars

(***************************************************************************)
(* get_base_students called on its own                                     *)
(***************************************************************************)
Tokens ==
    {MIXED, <<" ","1">>, <<" ","2">>, <<" ","3">>, <<" ","4">>, <<" ","5">>,
     KINDER, <<" ","k">>, <<"A","r","t">>, <<"m","i","x","e","d">>}

RECURSIVE Concat(_)
Concat(ss) == IF Len(ss) = 0 THEN <<>> ELSE Head(ss) \o Concat(Tail(ss))

BaseTitles ==
    {Str(Concat(ts)) : ts \in UNION {[1..n -> Tokens] : n \in 0..MaxTokens}}
        \cup {NonStr, NaNStr}

CallGetBase ==
    /\ pc = "call"
    /\ pc' = "returned"
    /\ base_out' = get_base_students(title_arg)
    /\ UNCHANGED <<uploaded_file, number_of_weeks, pay_rate, df, relevant_courses,
                   staff_totals, grand_total, final_df, results, exit, message,
                   title_arg>>

InitBase ==
    /\ pc = "call"
    /\ title_arg \in BaseTitles
    /\ base_out = 0
    /\ uploaded_file = NoTable
    /\ number_of_weeks = 4
    /\ pay_rate = 1250
    /\ df = NoTable
    /\ relevant_courses = <<>>
    /\ staff_totals = <<>>
    /\ grand_total = NoTotal
    /\ final_df = <<>>
    /\ results = NoResults
    /\ exit = ""
    /\ message = <<"", "", "">>

NextBase == CallGetBase

SpecBase == InitBase /\ [][NextBase]_vars

(***************************************************************************)
(* Properties                                                              *)
(***************************************************************************)
IsDetail(r) == r.isSummary # "True" /\ r.isBlank # "True"
DetailRows(view) == SelectSeq(view, IsDetail)
InputRows == uploaded_file.rows
HasRequired == RequiredSet \subseteq uploaded_file.columns

\* the first row of the uploaded table with the same title text as row i
\* reports a positive number of students
FirstSameTitlePositive(i) ==
    LET j == CHOOSE a \in 1..Len(InputRows) :
                 /\ InputRows[a].Course_Title = InputRows[i].Course_Title
                 /\ \A b \in 1..(a - 1) : InputRows[b].Course_Title # InputRows[i].Course_Title
    IN InputRows[j].Total_Students.k = "num" /\ InputRows[j].Total_Students.v > 0

\* row i names a specialist course, letter case disregarded
KeywordRow(i) ==
    /\ InputRows[i].Course_Title.k = "str"
    /\ HasKeyword(upper(InputRows[i].Course_Title.v))

Admitted(i) == \E a \in 1..Len(relevant_courses) : relevant_courses[a].index = i
InFullView(i) == \E a \in 1..Len(final_df) : IsDetail(final_df[a]) /\ final_df[a].index = i

\* max(0, students - base) cut to an integer; students in tenths
ExpectedOverload(students, base) ==
    IF students > 10 * base THEN (students - 10 * base) \div 10 ELSE 0

\* C1: every row whose title contains a keyword in any letter case, and whose
\* first same-title row has Total Students > 0, is a detail row of the full view.
C1_CaseInsensitiveEligibility ==
    (pc = "done" /\ HasRequired) =>
        \A i \in 1..Len(InputRows) :
            (KeywordRow(i) /\ FirstSameTitlePositive(i)) => InFullView(i)

\* C2: every detail row's Total Overload is max(0, own Total Students - Base
\* Students) cut to an integer, hence never negative, whatever the row's own
\* Total Students was (zero, negative, fractional, unparseable).
C2_OverloadClipped ==
    pc = "done" =>
        /\ \A a \in 1..Len(relevant_courses) :
              LET r == relevant_courses[a]
                  own == df.rows[r.index].Total_Students
              IN /\ own.k = "num"
                 /\ r.Total_Students = own
                 /\ r.Total_Overload = Num(ExpectedOverload(own.v, r.Base_Students.v))
                 /\ r.Total_Overload.v >= 0
        /\ \A a \in 1..Len(final_df) :
              IsDetail(final_df[a]) =>
                  \E b \in 1..Len(relevant_courses) : relevant_courses[b] = final_df[a]

\* a detail row whose own cell was unparseable next to one with a fractional
\* count above its base
C2_Witness ==
    /\ pc = "done"
    /\ \E a \in 1..Len(final_df) :
          /\ IsDetail(final_df[a])
          /\ InputRows[final_df[a].index].Total_Students = Text
          /\ final_df[a].Total_Overload = Num(0)
    /\ \E a \in 1..Len(final_df) :
          /\ IsDetail(final_df[a])
          /\ final_df[a].Total_Students = Num(255)
          /\ final_df[a].Total_Overload = Num(2)

\* C3: the grand total's totalOverload is the sum over staff_totals, which is
\* the sum over the detail rows of the full view.
C3_GrandTotalConsistent ==
    (pc = "done" /\ Len(final_df) > 0) =>
        /\ grand_total.totalOverload = SumOf(staff_totals, "Total Overload")
        /\ grand_total.totalOverload = SumOf(DetailRows(final_df), "Total Overload")

C3_Witness ==
    /\ pc = "done"
    /\ Len(staff_totals) = 2
    /\ staff_totals[1].Total_Overload.v > 0
    /\ staff_totals[2].Total_Overload.v > 0
    /\ grand_total.totalOverload = staff_totals[1].Total_Overload.v + staff_totals[2].Total_Overload.v

\* C4: whenever there is an eligible course, process_data returns a non-zero
\* view made of exactly the blank rows, the summary rows and the detail rows
\* with Total Overload > 0 of the full view, in the same order.
C4_NonZeroViewReturned ==
    (pc = "done" /\ Len(relevant_courses) > 0) =>
        /\ results.ok
        /\ results.data = final_df
        /\ results.non_zero_data =
              SelectSeq(final_df, LAMBDA r :
                  \/ r.isBlank = "True"
                  \/ r.isSummary = "True"
                  \/ (r.Total_Overload.k = "num" /\ r.Total_Overload.v > 0))

\* C5: get_base_students takes the first matching rule on the upper-cased
\* title (MIXED/1/2/3 -> 23, else 4/5 -> 26, else KINDER/K -> 22, else 23; a
\* non-string title -> 23), so the result is always one of 22, 23, 26.
C5_BaseStudentsFirstMatch ==
    pc = "returned" =>
        /\ base_out \in {22, 23, 26}
        /\ title_arg.k # "str" => base_out = 23
        /\ title_arg.k = "str" =>
              LET u == upper(title_arg.v)
                  rule1 == \/ Contains(u, MIXED)
                           \/ \E d \in {"1", "2", "3"} : Contains(u, <<" ", d>>)
                  rule2 == \E d \in {"4", "5"} : Contains(u, <<" ", d>>)
                  rule3 == Contains(u, KINDER) \/ Contains(u, <<" ", "K">>)
              IN /\ rule1 => base_out = 23
                 /\ (~rule1 /\ rule2) => base_out = 26
                 /\ (~rule1 /\ ~rule2 /\ rule3) => base_out = 22
                 /\ (~rule1 /\ ~rule2 /\ ~rule3) => base_out = 23

\* titles matching several rules: " 3" with " 5", and " 4" with KINDER
C5_Witness ==
    /\ pc = "returned"
    /\ \/ title_arg = Str(<<" ","5"," ","3">>) /\ base_out = 23
       \/ title_arg = Str(<<" ","4">> \o KINDER) /\ base_out = 26

\* the first column of the listed order that the uploaded table lacks
FirstMissingColumn ==
    IF "Course Title" \notin uploaded_file.columns THEN "Course Title"
    ELSE IF "Staff Name" \notin uploaded_file.columns THEN "Staff Name"
    ELSE "Total Students"

\* C6: a table lacking a required column gets an error naming the first
\* missing column only, no result, and is left exactly as it was uploaded.
C6_MissingColumnFailsFirst ==
    (pc = "done" /\ ~HasRequired) =>
        /\ message = <<"error", "missing required column", FirstMissingColumn>>
        /\ results = NoResults
        /\ df = uploaded_file
        /\ relevant_courses = <<>> /\ staff_totals = <<>> /\ final_df = <<>>

\* two columns are missing and the table has cells the conversion would change
C6_Witness ==
    /\ pc = "done"
    /\ uploaded_file.columns = {"Staff Name", "Total Students", "Max Students"}
    /\ Len(InputRows) > 0
    /\ InputRows[1].Total_Students = Text
    /\ InputRows[1].Max_Students = Text
    /\ message[3] = "Course Title"
    /\ ~results.ok

RowKind(r) ==
    IF r.isSummary = "True" THEN "summary" ELSE IF r.isBlank = "True" THEN "blank" ELSE "detail"

\* C7: the full view is, for the distinct staff names in ascending string
\* order, a block of that staff member's detail rows, one summary row with
\* the block's sums, and one blank row; summary rows, blank rows and
\* staff_totals rows are all as many as there are distinct staff names.
C7_BlockStructure ==
    (pc = "done" /\ Len(final_df) > 0) =>
        LET n == Len(final_df)
            kind(i) == RowKind(final_df[i])
            D == {i \in 1..n : kind(i) = "detail"}
            S == {i \in 1..n : kind(i) = "summary"}
            B == {i \in 1..n : kind(i) = "blank"}
            block(i) == SelectSeq(final_df, LAMBDA r :
                            IsDetail(r) /\ r.Staff_Name = final_df[i].Staff_Name)
        IN /\ kind(1) = "detail" /\ kind(n) = "blank"
           /\ \A i \in D :
                 /\ i < n
                 /\ kind(i + 1) \in {"detail", "summary"}
                 /\ final_df[i + 1].Staff_Name = final_df[i].Staff_Name
                 /\ final_df[i].Staff_Name.k = "str"
           /\ \A i \in S :
                 /\ i > 1 /\ i < n
                 /\ kind(i - 1) = "detail" /\ kind(i + 1) = "blank"
                 /\ final_df[i].Course_Title = Str(TOTAL)
                 /\ final_df[i].Total_Overload = Num(SumOf(block(i), "Total Overload"))
                 /\ final_df[i].Overload_Pay = Num(SumOf(block(i), "Overload Pay"))
           /\ \A i \in B :
                 /\ i > 1 /\ kind(i - 1) = "summary"
                 /\ i < n => kind(i + 1) = "detail"
           /\ \A i, j \in S : i < j => StrLess(final_df[i].Staff_Name.v, final_df[j].Staff_Name.v)
           /\ Cardinality(S) = Cardinality({final_df[i].Staff_Name : i \in D})
           /\ Cardinality(B) = Cardinality(S)
           /\ Len(staff_totals) = Cardinality(S)

\* two blocks, "B" before "a"
C7_Witness ==
    /\ pc = "done"
    /\ Len(final_df) = 6
    /\ RowKind(final_df[2]) = "summary" /\ final_df[2].Staff_Name = Str(<<"B">>)
    /\ RowKind(final_df[5]) = "summary" /\ final_df[5].Staff_Name = Str(<<"a">>)
    /\ final_df[5].Total_Overload.v > 0

\* C8: inside a staff member's block the detail rows keep the relative order
\* they had in the uploaded table.
C8_OrderWithinBlock ==
    pc = "done" =>
        \A a, b \in 1..Len(final_df) :
            ( /\ IsDetail(final_df[a]) /\ IsDetail(final_df[b])
              /\ final_df[a].Staff_Name = final_df[b].Staff_Name
              /\ final_df[a].index < final_df[b].index ) => a < b

\* C9: rows sharing one title all get the verdict of the first such row
\* (Total Students > 0), and an admitted row's overload comes from its own count.
C9_VerdictOfFirstSameTitle ==
    (pc = "done" /\ HasRequired) =>
        \A i \in 1..Len(InputRows) :
            ( /\ KeywordRow(i)
              /\ \E j \in 1..Len(InputRows) :
                    j # i /\ InputRows[j].Course_Title = InputRows[i].Course_Title ) =>
                /\ Admitted(i) <=> FirstSameTitlePositive(i)
                /\ \A a \in 1..Len(relevant_courses) :
                      relevant_courses[a].index = i =>
                          relevant_courses[a].Total_Overload =
                              Num(ExpectedOverload(df.rows[i].Total_Students.v,
                                                   relevant_courses[a].Base_Students.v))

\* C10: every row that passed the filter is a detail row of the full view
\* exactly once and is counted in the staff totals and the grand total.
C10_NoEligibleRowLost ==
    (pc = "done" /\ Len(relevant_courses) > 0) =>
        /\ \A a \in 1..Len(relevant_courses) :
              Cardinality({b \in 1..Len(final_df) :
                  IsDetail(final_df[b]) /\ final_df[b].index = relevant_courses[a].index}) = 1
        /\ Len(DetailRows(final_df)) = Len(relevant_courses)
        /\ SumOf(staff_totals, "Total Overload") = SumOf(relevant_courses, "Total Overload")
        /\ SumOf(staff_totals, "Overload Pay") = SumOf(relevant_courses, "Overload Pay")
        /\ grand_total.totalOverload = SumOf(relevant_courses, "Total Overload")
        /\ grand_total.overloadPay = SumOf(relevant_courses, "Overload Pay")

====
